---- MODULE Spec2Model ----
(***************************************************************************)
(* A model of src/main.py: the Selenium automation helper that launches a  *)
(* worker process, streams its output on a background thread, submits the  *)
(* rows of a spreadsheet to a web form, waits for completion, clicks the   *)
(* final buttons and writes a status column back to the spreadsheet.       *)
(*                                                                         *)
(* Four specifications share the definitions below:                        *)
(*   RowsSpec    read_excel_rows iterated over bounded input rows           *)
(*   StatusSpec  write_status_updates applied repeatedly to a file system   *)
(*   Spec        one run of main() with the worker and the reader thread    *)
(*   FairSpec    Spec with the fairness the thread scheduler provides       *)
(***************************************************************************)
EXTENDS Integers, Sequences, FiniteSets, TLC

\* ------------------------------------------------------------------ bounds
\* Longest text of a spreadsheet cell, in characters.
MaxLen == 3
\* Most rows of a table iterated by RowsSpec.
MaxRows == 2

\* ----------------------------------------------------------------- strings
\* Strings the code transforms are sequences of one-character strings, so
\* that strip, lower, split and the substring test are computed.
Chars == {"B", " ", ","}

RECURSIVE StringsUpTo(_)
StringsUpTo(n) ==
    IF n = 0 THEN {<<>>}
    ELSE LET shorter == StringsUpTo(n - 1)
         IN shorter \cup {Append(s, c) : s \in {t \in shorter : Len(t) = n - 1}, c \in Chars}

IsSpace(c) == c = " "

\* str.lower() on one character.
LowerChar(c) == IF c = "B" THEN "b" ELSE c

\* str.lower()
Lower(s) == [i \in 1..Len(s) |-> LowerChar(s[i])]

\* str.strip(): drops leading and trailing whitespace.
Strip(s) ==
    LET keep == {i \in 1..Len(s) : ~IsSpace(s[i])}
    IN IF keep = {} THEN <<>>
       ELSE LET lo == CHOOSE i \in keep : \A j \in keep : i <= j
                hi == CHOOSE i \in keep : \A j \in keep : j <= i
            IN SubSeq(s, lo, hi)

\* sub occurs in s starting at position i.
OccursAt(sub, s, i) ==
    /\ i >= 1
    /\ i + Len(sub) - 1 <= Len(s)
    /\ \A k \in 1..Len(sub) : s[i + k - 1] = sub[k]

\* Python's `sub in s` for strings.
Contains(sub, s) == \E i \in 1..(Len(s) + 1) : OccursAt(sub, s, i)

\* str.split(sep) for a non-empty separator: cuts at each occurrence, left
\* to right, keeping empty pieces.
RECURSIVE Split(_, _)
Split(s, sep) ==
    LET hits == {i \in 1..Len(s) : OccursAt(sep, s, i)}
    IN IF hits = {} THEN <<s>>
       ELSE LET i == CHOOSE h \in hits : \A g \in hits : h <= g
            IN <<SubSeq(s, 1, i - 1)>> \o Split(SubSeq(s, i + Len(sep), Len(s)), sep)

\* [x for x in seq if Test(x)]
RECURSIVE SelectNonEmpty(_)
SelectNonEmpty(seq) ==
    IF seq = <<>> THEN <<>>
    ELSE IF Head(seq) # <<>> THEN <<Head(seq)>> \o SelectNonEmpty(Tail(seq))
         ELSE SelectNonEmpty(Tail(seq))

\* ------------------------------------------------------------------- cells
\* A spreadsheet cell as pandas reads it: NaN (empty), a string or a number.
NaN == [kind |-> "nan", text |-> <<>>]
StrCell(s) == [kind |-> "str", text |-> s]
NumCell == [kind |-> "num", text |-> <<"7">>]

\* pd.isna(value)
isna(cell) == cell.kind = "nan"

\* str(value): a string is itself, a number is its decimal digits.
str(cell) == cell.text

\* _normalize_key
_normalize_key(value) == Lower(Strip(value))

\* ---------------------------------------------------------------- link map
\* A link map is None or a dict from normalized names to domain strings.
None == [present |-> FALSE, map |-> <<>>]
Dict(m) == [present |-> TRUE, map |-> m]

\* dict.get(key): the value, or None when the key is absent.
DictGet(d, key) ==
    IF \E k \in DOMAIN d.map : d.map[k].key = key
    THEN LET k == CHOOSE j \in DOMAIN d.map : d.map[j].key = key
         IN [found |-> TRUE, value |-> d.map[k].value]
    ELSE [found |-> FALSE, value |-> <<>>]

\* link_map[key] = value: replaces an existing entry, else appends one.
DictSet(m, key, value) ==
    IF \E k \in DOMAIN m : m[k].key = key
    THEN [k \in DOMAIN m |-> IF m[k].key = key THEN [key |-> key, value |-> value] ELSE m[k]]
    ELSE Append(m, [key |-> key, value |-> value])

\* build_link_map's loop over the rows of the link table.
RECURSIVE BuildLinkEntries(_, _)
BuildLinkEntries(rows, acc) ==
    IF rows = <<>> THEN acc
    ELSE LET row == Head(rows)
         IN IF isna(row.name) THEN BuildLinkEntries(Tail(rows), acc)
            ELSE BuildLinkEntries(
                     Tail(rows),
                     DictSet(acc, _normalize_key(str(row.name)),
                             IF isna(row.domain) THEN <<>> ELSE str(row.domain)))

build_link_map(rows) == Dict(BuildLinkEntries(rows, <<>>))

\* ---------------------------------------------------------- spreadsheet IO
\* A sheet on disk and a data frame in memory have the same shape: column
\* names and rows, each row a function from the column names to cells.  Row
\* k of the sequence has index k - 1.  On disk an empty cell is the empty
\* string; in memory a missing value is NaN.
DataFrame(cols, rows) == [columns |-> cols, rows |-> rows]
EmptyCell == [kind |-> "str", text |-> <<>>]

\* Cell texts pd.read_excel reads as missing under its default arguments
\* (keep_default_na=True): the empty cell and NA markers such as "NA".
NaTokens == {<<>>, <<"N", "A">>}

\* pd.read_excel(path): every cell parsed, NA markers becoming NaN.
read_excel(file) ==
    DataFrame(file.columns,
              [k \in 1..Len(file.rows) |->
                  [c \in file.columns |->
                      LET cell == file.rows[k][c]
                      IN IF cell.kind = "str" /\ cell.text \in NaTokens THEN NaN ELSE cell]])

\* df.to_excel(path, index=False): NaN written as the empty string (na_rep).
to_excel(df) ==
    DataFrame(df.columns,
              [k \in 1..Len(df.rows) |->
                  [c \in df.columns |->
                      IF isna(df.rows[k][c]) THEN EmptyCell ELSE df.rows[k][c]]])

\* -------------------------------------------------------------- row source
\* Column names of the input table (the --first-column, --second-column and
\* --status-column arguments).
first_column == "Topic"
second_column == "Links"
status_column == "Status"
\* --link-delimiter
split_delimiter == <<",">>

\* GroupTuples looking the raw group name up, without _normalize_key.
RECURSIVE GroupTuples_RawKey(_, _, _, _)
GroupTuples_RawKey(idx, first_text, groups, link_map) ==
    IF groups = <<>> THEN <<>>
    ELSE LET group == Head(groups)
             mapped_value == DictGet(link_map, group)
         IN <<<<idx, first_text, IF mapped_value.found THEN mapped_value.value ELSE group>>>>
            \o GroupTuples_RawKey(idx, first_text, Tail(groups), link_map)

\* The tuples one iteration of read_excel_rows' loop yields for a row.
RECURSIVE GroupTuples(_, _, _, _)
GroupTuples(idx, first_text, groups, link_map) ==
    IF groups = <<>> THEN <<>>
    ELSE LET group == Head(groups)
             mapped_value == DictGet(link_map, _normalize_key(group))
         IN <<<<idx, first_text, IF mapped_value.found THEN mapped_value.value ELSE group>>>>
            \o GroupTuples(idx, first_text, Tail(groups), link_map)

\* RowTuples yielding a per-row counter restarted at every row instead of
\* the row's index.
RowTuples_LocalIndex(idx, row, link_map, delim) ==
    LET first_value == row[first_column]
        first_text == IF isna(first_value) THEN <<>> ELSE str(first_value)
        raw_second == row[second_column]
        pieces == Split(str(raw_second), delim)
        groups == SelectNonEmpty([k \in 1..Len(pieces) |-> Strip(pieces[k])])
    IN IF ~link_map.present
       THEN <<<<0, first_text, IF isna(raw_second) THEN <<>> ELSE str(raw_second)>>>>
       ELSE IF isna(raw_second)
       THEN <<<<0, first_text, <<>>>>>>
       ELSE IF groups = <<>>
       THEN <<<<0, first_text, str(raw_second)>>>>
       ELSE GroupTuples(0, first_text, groups, link_map)

RowTuples(idx, row, link_map, delim) ==
    LET first_value == row[first_column]
        first_text == IF isna(first_value) THEN <<>> ELSE str(first_value)
        raw_second == row[second_column]
        pieces == Split(str(raw_second), delim)
        groups == SelectNonEmpty([k \in 1..Len(pieces) |-> Strip(pieces[k])])
    IN IF ~link_map.present
       THEN <<<<idx, first_text, IF isna(raw_second) THEN <<>> ELSE str(raw_second)>>>>
       ELSE IF isna(raw_second)
       THEN <<<<idx, first_text, <<>>>>>>
       ELSE IF groups = <<>>
       THEN <<<<idx, first_text, str(raw_second)>>>>
       ELSE GroupTuples(idx, first_text, groups, link_map)

\* read_excel_rows on a whole data frame: the missing-column error, or the
\* tuples of every row in row order.
RECURSIVE RowsFrom(_, _, _, _)
RowsFrom(rows, idx, link_map, delim) ==
    IF rows = <<>> THEN <<>>
    ELSE RowTuples(idx, Head(rows), link_map, delim)
         \o RowsFrom(Tail(rows), idx + 1, link_map, delim)

read_excel_rows(file, link_map, delim) ==
    LET df == read_excel(file)
    IN
    IF first_column \notin df.columns \/ second_column \notin df.columns
    THEN [raised |-> TRUE, tuples |-> <<>>]
    ELSE [raised |-> FALSE, tuples |-> RowsFrom(df.rows, 0, link_map, delim)]

\* ----------------------------------------------------------- status writer
\* The file system: the sheet at --excel-path and the one at --output-excel
\* (NoFile until written).
NoFile == DataFrame({}, <<>>)

\* df[status_column] = ""
WithStatusColumn(df) ==
    IF status_column \in df.columns THEN df
    ELSE DataFrame(df.columns \cup {status_column},
                   [k \in 1..Len(df.rows) |->
                       [c \in df.columns \cup {status_column} |->
                           IF c = status_column THEN StrCell(<<>>) ELSE df.rows[k][c]]])

\* df.loc[processed_indices, status_column] = status_value
SetStatus(df, processed_indices, status_value) ==
    DataFrame(df.columns,
              [k \in 1..Len(df.rows) |->
                  IF \E i \in DOMAIN processed_indices : processed_indices[i] = k - 1
                  THEN [df.rows[k] EXCEPT ![status_column] = StrCell(status_value)]
                  ELSE df.rows[k]])

\* write_status_updates(excel_path, processed_indices, status_column,
\* status_value, output_excel) as a function of the file system.
write_status_updates(files, processed_indices, status_value, has_output) ==
    IF processed_indices = <<>> THEN files
    ELSE LET df == SetStatus(WithStatusColumn(read_excel(files.input)),
                             processed_indices, status_value)
         IN IF has_output THEN [files EXCEPT !.output = to_excel(df)]
            ELSE [files EXCEPT !.input = to_excel(df)]

\* ------------------------------------------------------------------ inputs
\* Cells the second column may hold.
\* (read_excel never delivers an empty string: it reads an empty cell as NaN.)
SecondCells == {NaN, NumCell} \cup {StrCell(s) : s \in StringsUpTo(MaxLen) \ {<<>>}}
FirstCells == {NaN, StrCell(<<"B">>)}
InputRows == {[c \in {first_column, second_column} |->
                   IF c = first_column THEN f ELSE s] : f \in FirstCells, s \in SecondCells}

LinkRow(n, d) == [name |-> n, domain |-> d]
\* Link tables (the --link-excel-path sheet) the link map is built from.
LinkTables ==
    { <<>>,
      <<LinkRow(StrCell(<<" ", "B">>), StrCell(<<"x">>))>>,
      <<LinkRow(StrCell(<<"B">>), NaN), LinkRow(NaN, StrCell(<<"y">>))>>,
      <<LinkRow(StrCell(<<"B", " ">>), StrCell(<<"x">>)), LinkRow(StrCell(<<"b">>), StrCell(<<"y">>))>> }
LinkMaps == {None} \cup {build_link_map(t) : t \in LinkTables}

\* sorted(processed_indices): the elements of a set of integers, ascending.
RECURSIVE sorted(_)
sorted(S) ==
    IF S = {} THEN <<>>
    ELSE LET m == CHOOSE x \in S : \A y \in S : x <= y
         IN <<m>> \o sorted(S \ {m})

\* Sheets the status writer is applied to: with and without a status column,
\* some text cells being NA markers.
MaxCalls == 2
StatusValues == {<<"D">>, <<>>, <<"N", "A">>}
TopicTexts == {<<"B">>, <<"N", "A">>}
OldStatusTexts == {<<>>, <<"D">>, <<"B">>}
SheetRows(cols) ==
    {[c \in cols |->
         IF c = first_column THEN StrCell(t)
         ELSE IF c = second_column THEN StrCell(<<"B">>)
         ELSE StrCell(o)] : t \in TopicTexts, o \in OldStatusTexts}
RECURSIVE SeqsUpTo(_, _)
SeqsUpTo(S, n) ==
    IF n = 0 THEN {<<>>}
    ELSE LET shorter == SeqsUpTo(S, n - 1)
         IN shorter \cup {Append(q, x) : q \in {t \in shorter : Len(t) = n - 1}, x \in S}
StatusSheets ==
    {DataFrame(cols, rows) :
        cols \in {{first_column, second_column}, {first_column, second_column, status_column}},
        rows \in SeqsUpTo(SheetRows({first_column, second_column, status_column}), MaxRows)}
\* A sheet's rows cut down to its own columns.
Sheet(f) == DataFrame(f.columns, [k \in 1..Len(f.rows) |-> [c \in f.columns |-> f.rows[k][c]]])

VARIABLES
    r_link_map,   \* read_excel_rows: the link_map argument
    r_state,      \* read_excel_rows: "iter" between rows, "yield" inside a row, "stop"
    r_idx,        \* read_excel_rows: index of the row being iterated
    r_row,        \* read_excel_rows: the row being iterated
    r_out,        \* the tuples the current row yields
    r_pos,        \* how many of them have been yielded
    r_yielded,    \* the index of every tuple yielded so far, in order
    fs,           \* the file system: [input, output] sheets
    s_indices,    \* write_status_updates: the processed_indices argument
    s_value,      \* write_status_updates: the status_value argument
    s_output,     \* write_status_updates: whether output_excel is given
    s_calls,      \* how many times it has been applied
    s_prev,       \* the file system before the latest application
    cfg,          \* main: the parsed command line
    pc,           \* main thread: where it is in main()
    exc,          \* main thread: the exception main() ended with, or "none"
    process,      \* the worker: "none", "running", "exited", "terminated"
    pipe,         \* the worker's stdout: lines written and not yet read
    n_emitted,    \* how many lines the worker has written
    thread,       \* the reader thread: "none", "running", "finished", "killed"
    completion_event, \* threading.Event: "none" (no object), "clear", "set"
    marker_emitted,   \* the worker has written a line containing the marker
    marker_read,  \* the reader has read a line containing the marker
    joined,       \* stream_thread.join has been called
    driver,       \* the browser session: "none", "open", "quit"
    page_opened,  \* driver.get has returned
    dom,          \* the page's completion condition holds
    typed,        \* how many send_keys calls have filled a form field
    link_map,     \* main's link_map
    it,           \* how many tuples the read_excel_rows generator has yielded
    filled,       \* the tuples fill_fields has submitted, in order
    processed_indices, \* main's processed_indices
    wait_started, \* wait_for_completion has been entered
    poll,         \* the latest poll of _either: what it saw and what it did
    wait_result,  \* what wait_for_completion returned, or "none"
    clicked,      \* how many final buttons finish_workflow has clicked
    status_call   \* the call of write_status_updates main made, if any

rowVars == <<r_link_map, r_state, r_idx, r_row, r_out, r_pos, r_yielded>>
statusVars == <<s_indices, s_value, s_output, s_calls, s_prev>>
workerVars == <<process, pipe, n_emitted, marker_emitted>>
readerVars == <<thread, completion_event, marker_read>>
mainVars == <<pc, exc, joined, driver, page_opened, typed, link_map, it, filled,
              processed_indices, wait_started, poll, wait_result, clicked, status_call>>
runVars == <<cfg, workerVars, readerVars, mainVars, dom>>
vars == <<rowVars, statusVars, fs, runVars>>

NoFiles == [input |-> NoFile, output |-> NoFile]

\* completion_marker: None or a string.
NoMarker == [present |-> FALSE, text |-> <<>>]
Marker(t) == [present |-> TRUE, text |-> t]
NoPoll == [event |-> "none", dom |-> FALSE, result |-> "none", calls |-> <<>>]
NoCall == [called |-> FALSE, indices |-> <<>>]

\* The variables of the specifications that are not running.
RunIdle ==
    /\ cfg = [worker |-> FALSE, marker |-> NoMarker, nbuttons |-> 0,
              link_ok |-> FALSE, has_output |-> FALSE]
    /\ pc = "exited"
    /\ exc = "none"
    /\ process = "none"
    /\ pipe = <<>>
    /\ n_emitted = 0
    /\ thread = "none"
    /\ completion_event = "none"
    /\ marker_emitted = FALSE
    /\ marker_read = FALSE
    /\ joined = FALSE
    /\ driver = "none"
    /\ page_opened = FALSE
    /\ dom = FALSE
    /\ typed = 0
    /\ link_map = None
    /\ it = 0
    /\ filled = <<>>
    /\ processed_indices = {}
    /\ wait_started = FALSE
    /\ poll = NoPoll
    /\ wait_result = "none"
    /\ clicked = 0
    /\ status_call = NoCall

RowsIdle ==
    /\ r_link_map = None
    /\ r_state = "stop"
    /\ r_idx = -1
    /\ r_row = [c \in {first_column, second_column} |-> NaN]
    /\ r_out = <<>>
    /\ r_pos = 0
    /\ r_yielded = <<>>

StatusIdle ==
    /\ s_indices = <<>>
    /\ s_value = <<>>
    /\ s_output = FALSE
    /\ s_calls = 0
    /\ s_prev = NoFiles

NoRow == [c \in {first_column, second_column} |-> NaN]

RowsInit ==
    /\ r_link_map \in LinkMaps
    /\ r_state = "iter"
    /\ r_idx = -1
    /\ r_row = NoRow
    /\ r_out = <<>>
    /\ r_pos = 0
    /\ r_yielded = <<>>
    /\ StatusIdle
    /\ RunIdle
    /\ fs = NoFiles

\* df.iterrows() produces the next row and the loop body yields its first tuple.
IterRow ==
    /\ r_state = "iter"
    /\ r_idx + 1 < MaxRows
    /\ \E row \in InputRows :
        LET out == RowTuples(r_idx + 1, row, r_link_map, split_delimiter)
        IN /\ r_row' = row
           /\ r_out' = out
           /\ r_pos' = 1
           /\ r_yielded' = Append(r_yielded, out[1][1])
           /\ r_state' = IF Len(out) > 1 THEN "yield" ELSE "iter"
    /\ r_idx' = r_idx + 1
    /\ UNCHANGED <<r_link_map, statusVars, fs, runVars>>

\* The `for group in groups` loop yields the row's next tuple.
YieldGroup ==
    /\ r_state = "yield"
    /\ r_pos < Len(r_out)
    /\ r_pos' = r_pos + 1
    /\ r_yielded' = Append(r_yielded, r_out[r_pos + 1][1])
    /\ r_state' = IF r_pos + 1 < Len(r_out) THEN "yield" ELSE "iter"
    /\ UNCHANGED <<r_link_map, r_idx, r_row, r_out, statusVars, fs, runVars>>

\* df.iterrows() is exhausted: the generator returns.
StopIteration ==
    /\ r_state = "iter"
    /\ r_state' = "stop"
    /\ UNCHANGED <<r_link_map, r_idx, r_row, r_out, r_pos, r_yielded, statusVars, fs, runVars>>

RowsNext == IterRow \/ YieldGroup \/ StopIteration

RowsSpec == RowsInit /\ [][RowsNext]_vars

\* ------------------------------------------------- row source: properties
\* The group names of a cell text, stated over positions: the pieces between
\* consecutive delimiter characters that hold a non-space character, each
\* cut down to its first and last non-space character.
DelimChar == split_delimiter[1]
Cuts(s) == {0, Len(s) + 1} \cup {i \in 1..Len(s) : s[i] = DelimChar}
Pieces(s) == {p \in Cuts(s) \X Cuts(s) :
                 /\ p[1] < p[2]
                 /\ ~\E c \in Cuts(s) : p[1] < c /\ c < p[2]}
Inked(s, p) == {i \in (p[1] + 1)..(p[2] - 1) : s[i] # " "}
GroupPieces(s) == {p \in Pieces(s) : Inked(s, p) # {}}
NthGroupPiece(s, n) ==
    CHOOSE p \in GroupPieces(s) : Cardinality({q \in GroupPieces(s) : q[1] < p[1]}) = n - 1
Trimmed(s, p) ==
    LET ink == Inked(s, p)
        lo == CHOOSE i \in ink : \A j \in ink : i <= j
        hi == CHOOSE i \in ink : \A j \in ink : j <= i
    IN [k \in 1..(hi - lo + 1) |-> s[lo + k - 1]]
Lowercased(s) == [k \in 1..Len(s) |-> IF s[k] = "B" THEN "b" ELSE s[k]]
\* What a tuple for group name g must carry under link map d.
Expected(d, g) ==
    IF \E k \in DOMAIN d.map : d.map[k].key = Lowercased(g)
    THEN (CHOOSE e \in {d.map[k] : k \in DOMAIN d.map} : e.key = Lowercased(g)).value
    ELSE g

CountOf(seq, x) == Cardinality({i \in DOMAIN seq : seq[i] = x})

\* C7 as stated: every tuple yielded carries an index unique among all the
\* tuples yielded for the table.
C7_AllIndicesUnique ==
    \A i, j \in DOMAIN r_yielded : i # j => r_yielded[i] # r_yielded[j]

\* C7 amended: indices follow the table's row order (they never decrease,
\* every row iterated so far has yielded, and no index is skipped); they
\* are unique when no link map is given; with a link map the tuples that
\* one row expands to share that row's index, and only those do.
C7_IndexOrder ==
    /\ \A i, j \in DOMAIN r_yielded : i < j => r_yielded[i] <= r_yielded[j]
    /\ {r_yielded[i] : i \in DOMAIN r_yielded} = 0..r_idx
    /\ r_idx >= 0 => CountOf(r_yielded, r_idx) = r_pos
    /\ ~r_link_map.present =>
           \A i, j \in DOMAIN r_yielded : i # j => r_yielded[i] # r_yielded[j]
    /\ \A i, j \in DOMAIN r_yielded :
           (i < j /\ r_yielded[i] = r_yielded[j]) =>
               /\ r_link_map.present
               /\ \A k \in i..j : r_yielded[k] = r_yielded[i]

\* Two rows were iterated with a link map, the first expanded to two tuples.
C7_Witness == r_link_map.present /\ r_yielded = <<0, 0, 1>>

StatusInit ==
    /\ RowsIdle
    /\ RunIdle
    /\ \E f \in StatusSheets : fs = [input |-> Sheet(f), output |-> NoFile]
    /\ \E S \in SUBSET (0..(Len(fs.input.rows) - 1)) : s_indices = sorted(S)
    /\ s_value \in StatusValues
    /\ s_output \in BOOLEAN
    /\ s_calls = 0
    /\ s_prev = fs

CallWriteStatus ==
    /\ s_calls < MaxCalls
    /\ fs' = write_status_updates(fs, s_indices, s_value, s_output)
    /\ s_prev' = fs
    /\ s_calls' = s_calls + 1
    /\ UNCHANGED <<rowVars, runVars, s_indices, s_value, s_output>>

StatusNext == CallWriteStatus

StatusSpec == StatusInit /\ [][StatusNext]_vars

\* C10: write_status_updates is idempotent (a second application with the
\* same arguments leaves the files as the first left them), changes only
\* the status column at the given indices (creating the column if absent)
\* and leaves every other cell as it was, and writes nothing for an empty
\* index collection.
C10_IdempotentMinimal ==
    s_calls >= 1 =>
        LET before == s_prev.input
            after == IF s_output THEN fs.output ELSE fs.input
            given == {s_indices[i] : i \in DOMAIN s_indices}
        IN /\ s_calls >= 2 => fs = s_prev
           /\ s_indices = <<>> => fs = s_prev
           /\ s_indices # <<>> =>
                  /\ after.columns = before.columns \cup {status_column}
                  /\ Len(after.rows) = Len(before.rows)
                  /\ s_output => fs.input = s_prev.input
                  /\ \A k \in 1..Len(before.rows) :
                         /\ (k - 1) \in given => after.rows[k][status_column] = StrCell(s_value)
                         /\ \A c \in before.columns :
                                (c # status_column \/ (k - 1) \notin given) =>
                                    after.rows[k][c] = before.rows[k][c]

\* ------------------------------------------------------------------- main
\* Most lines the worker writes, and most final buttons configured.
MaxLines == 2
MaxButtons == 1

\* --status-value
status_value == <<"D">>

\* Lines the worker may write: one containing the marker text and a near
\* miss holding the same characters.
Lines == {<<"x", "o", "k">>, <<"o", "x", "k">>}
Markers == {NoMarker, Marker(<<>>), Marker(<<"o", "k">>)}

\* Command lines.  Without --worker the marker is read by no code.
Configs ==
    {c \in [worker : BOOLEAN, marker : Markers, nbuttons : 0..MaxButtons,
            link_ok : BOOLEAN, has_output : BOOLEAN] :
        ~c.worker => c.marker = NoMarker}

\* The link sheet main loads when it is readable.
MainLinkTable == <<LinkRow(StrCell(<<" ", "B">>), StrCell(<<"x">>))>>

SheetRow(t, l) == [c \in {first_column, second_column} |-> IF c = first_column THEN t ELSE l]
\* Input sheets of a run: no rows; the second column missing; a two-group
\* cell and an empty one; a sheet that has a status column already.
MainSheets ==
    { DataFrame({first_column, second_column}, <<>>),
      DataFrame({first_column}, <<[c \in {first_column} |-> StrCell(<<"B">>)]>>),
      DataFrame({first_column, second_column},
                <<SheetRow(StrCell(<<"B">>), StrCell(<<"B", ",", "B">>)),
                  SheetRow(StrCell(<<"N", "A">>), EmptyCell)>>),
      DataFrame({first_column, second_column, status_column},
                <<[c \in {first_column, second_column, status_column} |-> StrCell(<<"B">>)]>>) }

Init ==
    /\ RowsIdle
    /\ StatusIdle
    /\ cfg \in Configs
    /\ \E f \in MainSheets : fs = [input |-> f, output |-> NoFile]
    /\ pc = "launch"
    /\ exc = "none"
    /\ process = "none"
    /\ pipe = <<>>
    /\ n_emitted = 0
    /\ thread = "none"
    /\ completion_event = "none"
    /\ marker_emitted = FALSE
    /\ marker_read = FALSE
    /\ joined = FALSE
    /\ driver = "none"
    /\ page_opened = FALSE
    /\ dom = FALSE
    /\ typed = 0
    /\ link_map = None
    /\ it = 0
    /\ filled = <<>>
    /\ processed_indices = {}
    /\ wait_started = FALSE
    /\ poll = NoPoll
    /\ wait_result = "none"
    /\ clicked = 0
    /\ status_call = NoCall

idleVars == <<rowVars, statusVars>>

\* The line holds the marker text: some stretch of it equals the marker.
IsMarkerLine(line) ==
    /\ cfg.marker.present
    /\ cfg.marker.text # <<>>
    /\ \E i \in 1..Len(line) : \E j \in i..Len(line) : SubSeq(line, i, j) = cfg.marker.text

\* ---- the worker process (environment)
\* The worker writes a line to its stdout.
WorkerEmit ==
    /\ process = "running"
    /\ n_emitted < MaxLines
    /\ \E line \in Lines :
        /\ pipe' = Append(pipe, line)
        /\ marker_emitted' = (marker_emitted \/ IsMarkerLine(line))
    /\ n_emitted' = n_emitted + 1
    /\ UNCHANGED <<idleVars, fs, cfg, process, readerVars, mainVars, dom>>

\* The worker exits on its own.
WorkerExit ==
    /\ process = "running"
    /\ process' = "exited"
    /\ UNCHANGED <<idleVars, fs, cfg, pipe, n_emitted, marker_emitted, readerVars, mainVars, dom>>

\* The page reaches the state the completion condition tests for.
DomReady ==
    /\ driver = "open"
    /\ page_opened
    /\ ~dom
    /\ dom' = TRUE
    /\ UNCHANGED <<idleVars, fs, cfg, workerVars, readerVars, mainVars>>

\* ---- the reader thread: launch_worker._stream_output
\* ReadLine setting the event on every line, whatever the marker.
ReadLine_AnyLine ==
    /\ thread = "running"
    /\ pipe # <<>>
    /\ LET line == Head(pipe)
       IN /\ completion_event' = "set"
          /\ marker_read' = (marker_read \/ IsMarkerLine(line))
    /\ pipe' = Tail(pipe)
    /\ UNCHANGED <<idleVars, fs, cfg, process, n_emitted, marker_emitted, thread, mainVars, dom>>

\* One iteration of `for line in process.stdout`.
ReadLine ==
    /\ thread = "running"
    /\ pipe # <<>>
    /\ LET line == Head(pipe)
       IN /\ completion_event' =
                 IF cfg.marker.present /\ cfg.marker.text # <<>> /\ Contains(cfg.marker.text, line)
                 THEN "set" ELSE completion_event
          /\ marker_read' = (marker_read \/ IsMarkerLine(line))
    /\ pipe' = Tail(pipe)
    /\ UNCHANGED <<idleVars, fs, cfg, process, n_emitted, marker_emitted, thread, mainVars, dom>>

\* The loop ends at end of file, once the worker is gone and the pipe is
\* drained; the thread closes the stream and returns.
ReadEOF ==
    /\ thread = "running"
    /\ pipe = <<>>
    /\ process \in {"exited", "terminated"}
    /\ thread' = "finished"
    /\ UNCHANGED <<idleVars, fs, cfg, workerVars, completion_event, marker_read, mainVars, dom>>

\* ---- the main thread: main()
\* process.terminate() where `if process:` guards it.
Terminated(p) == IF p = "running" THEN "terminated" ELSE p

\* The generator main iterates.
Rows == read_excel_rows(fs.input, link_map, split_delimiter)

\* launch_worker when --worker is given: the process is started, the event
\* created and the reader thread started.
LaunchWorker ==
    /\ pc = "launch"
    /\ process' = IF cfg.worker THEN "running" ELSE process
    /\ completion_event' = IF cfg.worker THEN "clear" ELSE completion_event
    /\ thread' = IF cfg.worker THEN "running" ELSE thread
    /\ pc' = "wait_service"
    /\ UNCHANGED <<idleVars, fs, cfg, pipe, n_emitted, marker_emitted, marker_read,
                   exc, joined, driver, page_opened, typed, link_map, it, filled,
                   processed_indices, wait_started, poll, wait_result, clicked,
                   status_call, dom>>

\* wait_for_service returns True.
ServiceUp ==
    /\ pc = "wait_service"
    /\ pc' = "build_driver"
    /\ UNCHANGED <<idleVars, fs, cfg, process, pipe, n_emitted, marker_emitted, thread,
                   completion_event, marker_read, exc, joined, driver, page_opened,
                   typed, link_map, it, filled, processed_indices, wait_started, poll,
                   wait_result, clicked, status_call, dom>>

\* wait_for_service returns False: the worker is terminated and RuntimeError
\* raised.
ServiceDown ==
    /\ pc = "wait_service"
    /\ process' = Terminated(process)
    /\ exc' = "ServiceUnavailable"
    /\ pc' = "done"
    /\ UNCHANGED <<idleVars, fs, cfg, pipe, n_emitted, marker_emitted, thread,
                   completion_event, marker_read, joined, driver, page_opened, typed,
                   link_map, it, filled, processed_indices, wait_started, poll,
                   wait_result, clicked, status_call, dom>>

\* build_driver returns a session.
BuildDriverOk ==
    /\ pc = "build_driver"
    /\ driver' = "open"
    /\ pc' = "open_page"
    /\ UNCHANGED <<idleVars, fs, cfg, process, pipe, n_emitted, marker_emitted, thread,
                   completion_event, marker_read, exc, joined, page_opened, typed,
                   link_map, it, filled, processed_indices, wait_started, poll,
                   wait_result, clicked, status_call, dom>>

\* build_driver raises (no browser, no driver binary): nothing catches it.
BuildDriverFail ==
    /\ pc = "build_driver"
    /\ exc' = "DriverError"
    /\ pc' = "done"
    /\ UNCHANGED <<idleVars, fs, cfg, process, pipe, n_emitted, marker_emitted, thread,
                   completion_event, marker_read, joined, driver, page_opened, typed,
                   link_map, it, filled, processed_indices, wait_started, poll,
                   wait_result, clicked, status_call, dom>>

\* driver.get returns.
OpenPageOk ==
    /\ pc = "open_page"
    /\ page_opened' = TRUE
    /\ pc' = "load_links"
    /\ UNCHANGED <<idleVars, fs, cfg, process, pipe, n_emitted, marker_emitted, thread,
                   completion_event, marker_read, exc, joined, driver, typed, link_map,
                   it, filled, processed_indices, wait_started, poll, wait_result,
                   clicked, status_call, dom>>

\* driver.get raises WebDriverException: the session is quit, the worker
\* terminated and RuntimeError raised.
OpenPageFail ==
    /\ pc = "open_page"
    /\ driver' = "quit"
    /\ process' = Terminated(process)
    /\ exc' = "PageOpenError"
    /\ pc' = "done"
    /\ UNCHANGED <<idleVars, fs, cfg, pipe, n_emitted, marker_emitted, thread,
                   completion_event, marker_read, joined, page_opened, typed, link_map,
                   it, filled, processed_indices, wait_started, poll, wait_result,
                   clicked, status_call, dom>>

\* build_link_map returns the link map (args.link_excel_path is a Path,
\* always true).
LoadLinksOk ==
    /\ pc = "load_links"
    /\ cfg.link_ok
    /\ link_map' = build_link_map(MainLinkTable)
    /\ pc' = "loop"
    /\ UNCHANGED <<idleVars, fs, cfg, process, pipe, n_emitted, marker_emitted, thread,
                   completion_event, marker_read, exc, joined, driver, page_opened,
                   typed, it, filled, processed_indices, wait_started, poll,
                   wait_result, clicked, status_call, dom>>

\* build_link_map raises (unreadable sheet, missing column): nothing catches
\* it.
LoadLinksFail ==
    /\ pc = "load_links"
    /\ ~cfg.link_ok
    /\ exc' = "LinkMapError"
    /\ pc' = "done"
    /\ UNCHANGED <<idleVars, fs, cfg, process, pipe, n_emitted, marker_emitted, thread,
                   completion_event, marker_read, joined, driver, page_opened, typed,
                   link_map, it, filled, processed_indices, wait_started, poll,
                   wait_result, clicked, status_call, dom>>

\* The generator's first step finds a required column missing and raises.
MissingColumn ==
    /\ pc = "loop"
    /\ Rows.raised
    /\ exc' = "MissingColumn"
    /\ pc' = "finally_terminate"
    /\ UNCHANGED <<idleVars, fs, cfg, process, pipe, n_emitted, marker_emitted, thread,
                   completion_event, marker_read, joined, driver, page_opened, typed,
                   link_map, it, filled, processed_indices, wait_started, poll,
                   wait_result, clicked, status_call, dom>>

\* SubmitTimeout carrying on with the next tuple instead of raising.
SubmitTimeout_Swallowed ==
    /\ pc = "loop"
    /\ ~Rows.raised
    /\ it < Len(Rows.tuples)
    /\ it' = it + 1
    /\ \E k \in 0..2 : typed' = typed + k
    /\ UNCHANGED <<idleVars, fs, cfg, process, pipe, n_emitted, marker_emitted, thread,
                   completion_event, marker_read, pc, exc, joined, driver, page_opened,
                   link_map, filled, processed_indices, wait_started, poll,
                   wait_result, clicked, status_call, dom>>

\* SubmitTimeout recording the index before fill_fields is called.
SubmitTimeout_AddsIndex ==
    /\ pc = "loop"
    /\ ~Rows.raised
    /\ it < Len(Rows.tuples)
    /\ it' = it + 1
    /\ processed_indices' = processed_indices \cup {Rows.tuples[it + 1][1]}
    /\ \E k \in 0..2 : typed' = typed + k
    /\ exc' = "Timeout"
    /\ pc' = "finally_terminate"
    /\ UNCHANGED <<idleVars, fs, cfg, process, pipe, n_emitted, marker_emitted, thread,
                   completion_event, marker_read, joined, driver, page_opened,
                   link_map, filled, wait_started, poll, wait_result, clicked,
                   status_call, dom>>

\* One iteration of the loop: the generator yields a tuple, fill_fields
\* types both values and submits, the index is recorded.
Submit ==
    /\ pc = "loop"
    /\ ~Rows.raised
    /\ it < Len(Rows.tuples)
    /\ it' = it + 1
    /\ typed' = typed + 2
    /\ filled' = Append(filled, Rows.tuples[it + 1])
    /\ processed_indices' = processed_indices \cup {Rows.tuples[it + 1][1]}
    /\ UNCHANGED <<idleVars, fs, cfg, process, pipe, n_emitted, marker_emitted, thread,
                   completion_event, marker_read, pc, exc, joined, driver, page_opened,
                   link_map, wait_started, poll, wait_result, clicked, status_call,
                   dom>>

\* The generator yields a tuple and fill_fields times out waiting for the
\* first field, the second field or the submit element.
SubmitTimeout ==
    /\ pc = "loop"
    /\ ~Rows.raised
    /\ it < Len(Rows.tuples)
    /\ it' = it + 1
    /\ \E k \in 0..2 : typed' = typed + k
    /\ exc' = "Timeout"
    /\ pc' = "finally_terminate"
    /\ UNCHANGED <<idleVars, fs, cfg, process, pipe, n_emitted, marker_emitted, thread,
                   completion_event, marker_read, joined, driver, page_opened,
                   link_map, filled, processed_indices, wait_started, poll,
                   wait_result, clicked, status_call, dom>>

\* The generator is exhausted.
LoopDone ==
    /\ pc = "loop"
    /\ ~Rows.raised
    /\ it = Len(Rows.tuples)
    /\ pc' = "wait_completion"
    /\ UNCHANGED <<idleVars, fs, cfg, process, pipe, n_emitted, marker_emitted, thread,
                   completion_event, marker_read, exc, joined, driver, page_opened,
                   typed, link_map, it, filled, processed_indices, wait_started, poll,
                   wait_result, clicked, status_call, dom>>

\* _either evaluating the DOM condition before the worker signal.
_either_DomFirst(process_event, condition) ==
    IF condition
    THEN [result |-> "dom", calls |-> <<"condition">>]
    ELSE IF process_event # "none" /\ process_event = "set"
    THEN [result |-> "process", calls |-> <<"condition", "is_set">>]
    ELSE [result |-> "False",
          calls |-> IF process_event # "none" THEN <<"condition", "is_set">> ELSE <<"condition">>]

\* wait_for_completion._either: its result and the calls it makes, in order.
_either(process_event, condition) ==
    IF process_event # "none" /\ process_event = "set"
    THEN [result |-> "process", calls |-> <<"is_set">>]
    ELSE LET asked == IF process_event # "none" THEN <<"is_set">> ELSE <<>>
         IN IF condition
            THEN [result |-> "dom", calls |-> Append(asked, "condition")]
            ELSE [result |-> "False", calls |-> Append(asked, "condition")]

\* One poll of WebDriverWait.until(_either): a true result is returned; a
\* false one is followed by another poll or, past the deadline, by
\* TimeoutException.
Poll ==
    /\ pc = "wait_completion"
    /\ wait_started' = TRUE
    /\ LET r == _either(completion_event, dom)
       IN /\ poll' = [event |-> completion_event, dom |-> dom,
                      result |-> r.result, calls |-> r.calls]
          /\ IF r.result # "False"
             THEN /\ wait_result' = r.result
                  /\ pc' = "finish"
                  /\ exc' = exc
             ELSE /\ wait_result' = wait_result
                  /\ \E timed_out \in BOOLEAN :
                         /\ pc' = IF timed_out THEN "finally_terminate" ELSE pc
                         /\ exc' = IF timed_out THEN "Timeout" ELSE exc
    /\ UNCHANGED <<idleVars, fs, cfg, process, pipe, n_emitted, marker_emitted, thread,
                   completion_event, marker_read, joined, driver, page_opened, typed,
                   link_map, it, filled, processed_indices, clicked, status_call, dom>>

\* finish_workflow clicks the next final button.
ClickButton ==
    /\ pc = "finish"
    /\ clicked < cfg.nbuttons
    /\ clicked' = clicked + 1
    /\ UNCHANGED <<idleVars, fs, cfg, process, pipe, n_emitted, marker_emitted, thread,
                   completion_event, marker_read, pc, exc, joined, driver, page_opened,
                   typed, link_map, it, filled, processed_indices, wait_started, poll,
                   wait_result, status_call, dom>>

\* finish_workflow times out waiting for the next final button.
ClickTimeout ==
    /\ pc = "finish"
    /\ clicked < cfg.nbuttons
    /\ exc' = "Timeout"
    /\ pc' = "finally_terminate"
    /\ UNCHANGED <<idleVars, fs, cfg, process, pipe, n_emitted, marker_emitted, thread,
                   completion_event, marker_read, joined, driver, page_opened, typed,
                   link_map, it, filled, processed_indices, wait_started, poll,
                   wait_result, clicked, status_call, dom>>

\* finish_workflow has returned: write_status_updates is called with
\* sorted(processed_indices).
WriteStatus ==
    /\ pc = "finish"
    /\ clicked = cfg.nbuttons
    /\ fs' = write_status_updates(fs, sorted(processed_indices), status_value, cfg.has_output)
    /\ status_call' = [called |-> TRUE, indices |-> sorted(processed_indices)]
    /\ pc' = "finally_terminate"
    /\ UNCHANGED <<idleVars, cfg, process, pipe, n_emitted, marker_emitted, thread,
                   completion_event, marker_read, exc, joined, driver, page_opened,
                   typed, link_map, it, filled, processed_indices, wait_started, poll,
                   wait_result, clicked, dom>>

\* finally: process.terminate() and process.wait(timeout=5).
FinallyTerminate ==
    /\ pc = "finally_terminate"
    /\ process' = Terminated(process)
    /\ pc' = "finally_quit"
    /\ UNCHANGED <<idleVars, fs, cfg, pipe, n_emitted, marker_emitted, thread,
                   completion_event, marker_read, exc, joined, driver, page_opened,
                   typed, link_map, it, filled, processed_indices, wait_started, poll,
                   wait_result, clicked, status_call, dom>>

\* finally: driver.quit().
FinallyQuit ==
    /\ pc = "finally_quit"
    /\ driver' = "quit"
    /\ pc' = "finally_join"
    /\ UNCHANGED <<idleVars, fs, cfg, process, pipe, n_emitted, marker_emitted, thread,
                   completion_event, marker_read, exc, joined, page_opened, typed,
                   link_map, it, filled, processed_indices, wait_started, poll,
                   wait_result, clicked, status_call, dom>>

\* FinallyJoin resetting the event once the thread is joined.
FinallyJoin_ClearsEvent ==
    /\ pc = "finally_join"
    /\ joined' = (thread # "none")
    /\ completion_event' = IF completion_event = "set" THEN "clear" ELSE completion_event
    /\ pc' = "done"
    /\ UNCHANGED <<idleVars, fs, cfg, process, pipe, n_emitted, marker_emitted, thread,
                   marker_read, exc, driver, page_opened, typed, link_map, it, filled,
                   processed_indices, wait_started, poll, wait_result, clicked,
                   status_call, dom>>

\* finally: stream_thread.join(timeout=1) when there is a thread.
FinallyJoin ==
    /\ pc = "finally_join"
    /\ joined' = (thread # "none")
    /\ pc' = "done"
    /\ UNCHANGED <<idleVars, fs, cfg, process, pipe, n_emitted, marker_emitted, thread,
                   completion_event, marker_read, exc, driver, page_opened, typed,
                   link_map, it, filled, processed_indices, wait_started, poll,
                   wait_result, clicked, status_call, dom>>

\* main() has returned or raised: the interpreter exits and the daemon
\* reader thread dies with it.
InterpreterExit ==
    /\ pc = "done"
    /\ pc' = "exited"
    /\ thread' = IF thread = "running" THEN "killed" ELSE thread
    /\ UNCHANGED <<idleVars, fs, cfg, process, pipe, n_emitted, marker_emitted,
                   completion_event, marker_read, exc, joined, driver, page_opened,
                   typed, link_map, it, filled, processed_indices, wait_started, poll,
                   wait_result, clicked, status_call, dom>>

MainStep ==
    \/ LaunchWorker \/ ServiceUp \/ ServiceDown \/ BuildDriverOk \/ BuildDriverFail
    \/ OpenPageOk \/ OpenPageFail \/ LoadLinksOk \/ LoadLinksFail
    \/ MissingColumn \/ Submit \/ SubmitTimeout \/ LoopDone
    \/ Poll \/ ClickButton \/ ClickTimeout \/ WriteStatus
    \/ FinallyTerminate \/ FinallyQuit \/ FinallyJoin \/ InterpreterExit

Next == MainStep \/ WorkerEmit \/ WorkerExit \/ DomReady \/ ReadLine \/ ReadEOF

Spec == Init /\ [][Next]_vars

\* The scheduler runs the reader thread whenever it can take a step.
FairSpec == Spec /\ WF_vars(ReadLine) /\ WF_vars(ReadEOF)

\* --------------------------------------------------------- run: properties
Ended == pc \in {"done", "exited"}

\* C1: every path of main() that starts after the worker was launched ends
\* with the worker not running, the reader thread joined and, when a
\* browser session was created, that session closed.
C1_CleanupOnEveryPath ==
    (cfg.worker /\ Ended) =>
        /\ process # "running"
        /\ joined
        /\ driver # "none" => driver = "quit"

\* C2: when a required column is missing the error is raised before any
\* browser interaction: no session created, no page opened, no field filled.
C2_MissingColumnBeforeBrowser ==
    exc = "MissingColumn" =>
        /\ driver = "none"
        /\ ~page_opened
        /\ typed = 0

\* C3: a poll consults the worker signal first; when the signal exists and
\* is set it answers "process" without evaluating the DOM condition, else
\* "dom" when the DOM condition holds, else it polls again; with no worker
\* the signal is never consulted and the only success is "dom".
C3_SignalCheckedFirst ==
    /\ wait_started <=> poll.calls # <<>>
    /\ wait_started =>
        /\ poll.event = "set" => (poll.result = "process" /\ poll.calls = <<"is_set">>)
        /\ (poll.event # "set" /\ poll.dom) => poll.result = "dom"
        /\ (poll.event # "set" /\ ~poll.dom) => poll.result = "False"
        /\ poll.event # "set" => poll.calls[Len(poll.calls)] = "condition"
        /\ poll.event # "none" => poll.calls[1] = "is_set"
        /\ ~cfg.worker =>
               /\ poll.calls = <<"condition">>
               /\ poll.result # "process"
    /\ wait_result # "none" => (wait_result = poll.result /\ wait_result \in {"process", "dom"})
    /\ (wait_started /\ wait_result = "none" /\ pc = "wait_completion") => poll.result = "False"

\* The signal was set and the DOM condition held in the same poll.
C3_Witness ==
    /\ poll.event = "set"
    /\ poll.dom
    /\ wait_result = "process"

\* C4: the phases run in order, each only after the one before succeeded:
\* every tuple is submitted, then the completion wait, then every final
\* button, then the status write; the sheet is written only in a run where
\* all of them succeeded and never in a run that failed.
C4_PhaseOrder ==
    /\ [](/\ wait_started =>
                /\ Len(filled) = it
                /\ ~status_call.called => (~Rows.raised /\ filled = Rows.tuples)
          /\ wait_result # "none" => wait_started
          /\ clicked > 0 => wait_result # "none"
          /\ status_call.called =>
                /\ Len(filled) = it
                /\ wait_result # "none"
                /\ clicked = cfg.nbuttons
                /\ exc = "none"
          /\ exc # "none" => ~status_call.called)
    /\ [][fs' # fs => (~status_call.called /\ status_call'.called)]_vars

\* A run that submitted three tuples, clicked the button and wrote the sheet.
C4_Witness ==
    /\ pc = "exited"
    /\ status_call.called
    /\ Len(filled) = 3
    /\ clicked = 1
    /\ status_column \in fs.input.columns

\* C5: the signal only ever goes from clear to set, it is set only by a
\* step of the reader thread, and no step of the main thread after the
\* launch changes it.
C5_SignalMonotonic ==
    [][/\ completion_event = "set" => completion_event' = "set"
       /\ completion_event' # completion_event =>
              IF completion_event = "none"
              THEN pc = "launch" /\ completion_event' = "clear"
              ELSE /\ completion_event' = "set"
                   /\ thread = "running"
                   /\ pipe' = Tail(pipe)
                   /\ UNCHANGED mainVars]_vars

\* The signal was set and the run went on through the status write to its end.
C5_Witness ==
    /\ completion_event = "set"
    /\ status_call.called
    /\ joined
    /\ pc = "exited"

C9_ProcessedIndices ==
    /\ [](/\ processed_indices \subseteq {Rows.tuples[k][1] : k \in 1..it}
          /\ processed_indices = {filled[k][1] : k \in DOMAIN filled}
          /\ status_call.called =>
                /\ {status_call.indices[k] : k \in DOMAIN status_call.indices} = processed_indices
                /\ Len(status_call.indices) = Cardinality(processed_indices))
    /\ [][/\ processed_indices \subseteq processed_indices'
          /\ processed_indices' # processed_indices =>
                 /\ Len(filled') = Len(filled) + 1
                 /\ processed_indices' = processed_indices \cup {filled'[Len(filled')][1]}]_vars

\* Three tuples of two rows were submitted and both indices written.
C9_Witness ==
    /\ Len(filled) = 3
    /\ processed_indices = {0, 1}
    /\ status_call.called
    /\ status_call.indices = <<0, 1>>
====
